---- MODULE Spec2Model ----
(***************************************************************************)
(* Model of rptools.rpcompletion.rpCompletion: the completion of           *)
(* RetroPath2.0 / rp2paths master pathways (rp_completion and the private  *)
(* functions it calls).                                                    *)
(*                                                                         *)
(* Python dictionaries whose iteration order the code depends on are       *)
(* sequences of entries (insertion order); dictionaries that are only      *)
(* looked up or compared are functions.  A stoichiometric map              *)
(* {species id: coefficient} is a function from a set of species ids to    *)
(* integers; in an added-compounds record the {'stoichio': n} entry of a   *)
(* species is written n.  A mean rule score is the exact fraction          *)
(* [num, den].                                                             *)
(***************************************************************************)
EXTENDS Integers, Sequences, FiniteSets, TLC

\* ------------------------------------------------------------------ bounds
\* Longest pathways file (number of rows).
MaxRows == 2
\* Largest max_subpaths_filter tried.
MaxFilter == 2
\* Largest stoichiometric coefficient drawn for __add_compounds.
MaxCoef == 2

\* ------------------------------------------------------------ small helpers
EmptyMap == [x \in {} |-> 0]

RECURSIVE SeqSum(_)
SeqSum(s) == IF s = <<>> THEN 0 ELSE Head(s) + SeqSum(Tail(s))

RECURSIVE Concat(_)
\* sum(list_of_lists, []) : the lists one after the other
Concat(ss) == IF ss = <<>> THEN <<>> ELSE Head(ss) \o Concat(Tail(ss))

Range(s) == {s[i] : i \in 1..Len(s)}

RECURSIVE SetToSeq(_)
\* one fixed enumeration of a set, to compare lists up to their order
SetToSeq(S) == IF S = {} THEN <<>>
               ELSE LET x == CHOOSE y \in S : TRUE IN <<x>> \o SetToSeq(S \ {x})

\* list(a_set): the elements of the set, each once, in the iteration order
\* of the set, which follows the hashes of the strings and is any order
ListsOfSet(S) == {l \in [1..Cardinality(S) -> S] : Range(l) = S}

\* ------------------------------------------------------------ the universe
Species == {"A", "B", "TARGET_1", "X", "Y"}
TransfoIds == {"T1", "T2"}
Rules == {"r1", "r2"}
Tmpls == {"m1", "m2"}
\* The rule scores a rule-score table may hold
RuleScores == {1, 2}
\* 'Path ID' values as written in the pathways file; "a" is not an integer
PathIds == {"1", "2", "a"}
IntPathIds == {"1", "2"}

\* Flux bounds given to every reaction (rp_completion's defaults)
default_lower_flux_bound == -10000
default_upper_flux_bound == 10000

\* The rows of the pathways file that describe one transformation:
\* 'Rule ID' (split on ','), 'Left' and 'Right' ('<sto>.<spe>' joined by ':')
TransfoRow(t) ==
    IF t = "T1"
    THEN [rule_ids |-> <<"r1", "r2">>,
          left |-> ("A" :> 1), right |-> ("TARGET_1" :> 1)]
    ELSE [rule_ids |-> <<"r2">>,
          left |-> ("B" :> 2), right |-> ("A" :> 1)]

\* Added-compounds records returned by the rebuild service
NoAdded == [right |-> EmptyMap, left |-> EmptyMap,
            right_nostruct |-> EmptyMap, left_nostruct |-> EmptyMap]
AddedX == [NoAdded EXCEPT !.left = ("X" :> 1)]
AddedY == [NoAdded EXCEPT !.left_nostruct = ("Y" :> 1), !.left = ("B" :> 1),
                          !.right = ("X" :> 1)]

Tm(m, rec) == [tmpl |-> m, added_cmpds |-> rec]

\* What rebuild_rxn may answer for one (rule, transformation): the template
\* reactions of the rule, in order, each with its added-compounds record.
RebuildAnswers(t, r) ==
    IF t = "T1" /\ r = "r1"
    THEN { <<>>,
           <<Tm("m1", NoAdded)>>,
           <<Tm("m1", AddedX), Tm("m2", AddedX)>> }
    ELSE IF t = "T1" /\ r = "r2"
    THEN { <<>>, <<Tm("m1", AddedX)>> }
    ELSE IF t = "T2" /\ r = "r2"
    THEN { <<>>, <<Tm("m1", NoAdded)>>, <<Tm("m1", AddedY)>>,
           <<Tm("m1", AddedX), Tm("m2", AddedX)>> }
    ELSE { <<>> }

\* The compounds cache (cid_strc): species with full structural data
CompoundsCacheIds == {"A", "TARGET_1", "X"}

\* -------------------------------------------------------- __read_pathways
\* A row of the pathways file is [path_id, transfo_id]: its 'Path ID' and its
\* 'Unique ID' without the two-character suffix; the other columns of the
\* row are TransfoRow(transfo_id).

\* The Python value __check_pathways returns, written as Python prints it
\* ("True" is the bool True, anything else is that string).
check_pathways(df) ==
    IF Len(df) = 0 THEN "infile is empty"
    ELSE IF \E i \in 1..Len(df) : df[i].path_id \notin IntPathIds
         THEN "'Path ID' column contain non integer value(s)"
         ELSE "True"

\* bool(v) of such a value: only False and the empty string are falsy
Truthy(v) == v \notin {"False", ""}

\* `if not check: logger.error(check); exit()`
ReadAborts(df) == ~ Truthy(check_pathways(df))

RECURSIVE AddRow(_, _)
\* pathways[path_id] += [transfo_id], or a new key at the end
AddRow(pathways, row) ==
    IF pathways = <<>> THEN << [id |-> row.path_id, transfos |-> <<row.transfo_id>>] >>
    ELSE IF Head(pathways).id = row.path_id
         THEN << [Head(pathways) EXCEPT !.transfos = @ \o <<row.transfo_id>>] >>
              \o Tail(pathways)
         ELSE << Head(pathways) >> \o AddRow(Tail(pathways), row)

RECURSIVE ReadPathwaysDict(_)
\* the `pathways` dictionary after the loop over the rows
ReadPathwaysDict(df) ==
    IF df = <<>> THEN <<>>
    ELSE LET before == ReadPathwaysDict(SubSeq(df, 1, Len(df) - 1))
         IN AddRow(before, df[Len(df)])

RECURSIVE ReadTransfoIds(_)
\* the keys of the `transfos` dictionary, in insertion order
ReadTransfoIds(df) ==
    IF df = <<>> THEN <<>>
    ELSE LET before == ReadTransfoIds(SubSeq(df, 1, Len(df) - 1))
             t == df[Len(df)].transfo_id
         IN IF t \in Range(before) THEN before ELSE before \o <<t>>

\* the `transfos` dictionary: its keys in order, and the value of each key
read_transfos(df) ==
    [ids |-> ReadTransfoIds(df),
     val |-> [t \in Range(ReadTransfoIds(df)) |-> TransfoRow(t)]]

\* --------------------------------------------------------- __add_compounds
\* AddInto with `=` where the code has `+=`
AddIntoOverwrite(side, added) ==
    [x \in DOMAIN side \cup DOMAIN added |->
        IF x \in DOMAIN added THEN added[x] ELSE side[x]]

\* One `for cmpd_id, cmpd in compounds_to_add[...]` loop over one side
AddInto(side, added) ==
    [x \in DOMAIN side \cup DOMAIN added |->
        IF x \in DOMAIN added
        THEN IF x \in DOMAIN side THEN side[x] + added[x] ELSE added[x]
        ELSE side[x]]

add_compounds(compounds, compounds_to_add) ==
    [right |-> AddInto(AddInto(compounds.right, compounds_to_add.right),
                       compounds_to_add.right_nostruct),
     left |-> AddInto(AddInto(compounds.left, compounds_to_add.left),
                      compounds_to_add.left_nostruct)]

\* add_compounds_call with `_compounds = compounds`: the sums are written
\* into the argument itself
add_compounds_in_place(compounds, compounds_to_add) ==
    [result |-> add_compounds(compounds, compounds_to_add),
     compounds |-> add_compounds(compounds, compounds_to_add),
     compounds_to_add |-> compounds_to_add]

\* __add_compounds as its caller sees it: what it returns and what its two
\* arguments hold after the call. The sums are written into
\* `_compounds = deepcopy(compounds)`; compounds_to_add is only read.
add_compounds_call(compounds, compounds_to_add) ==
    [result |-> add_compounds(compounds, compounds_to_add),
     compounds |-> compounds,
     compounds_to_add |-> compounds_to_add]

\* ------------------------------------------------ __complete_transformations
\* `ec_numbers[transfo_id]['ec']` of a missing key raises KeyError
CompleteRaises(transfo_ids, ec) ==
    \E i \in 1..Len(transfo_ids) : transfo_ids[i] \notin DOMAIN ec

\* full_transfos[transfo_id]['complement']: one entry per rule id of the
\* transformation, in the order of its 'rule_ids', each holding what
\* rebuild_rxn answered for it
Complement(t, tr, rb) ==
    [k \in 1..Len(tr.rule_ids) |->
        [rule |-> tr.rule_ids[k], tmpls |-> rb[<<t, tr.rule_ids[k]>>]]]

complete_transformations(tf, ec, rb) ==
    [t \in Range(tf.ids) |->
        [ec |-> ec[t],
         left |-> tf.val[t].left,
         right |-> tf.val[t].right,
         complement |-> Complement(t, tf.val[t], rb)]]

\* --------------------------------------------- __build_pathway_combinatorics
\* The triplets of one rule of a complement, one per template reaction
RuleTriplets(t, entry) ==
    [k \in 1..Len(entry.tmpls) |->
        [rp2_transfo_id |-> t, rule_ids |-> entry.rule,
         tmpl_rxn_ids |-> entry.tmpls[k].tmpl]]

\* The candidate list of one position: the loop over the rules and, inside,
\* over the template reactions of the transformation's complement
Candidates(full, t) ==
    Concat([k \in 1..Len(full[t].complement) |->
                RuleTriplets(t, full[t].complement[k])])

build_pathway_combinatorics(full, pws) ==
    [p \in 1..Len(pws) |->
        [id |-> pws[p].id,
         lists |-> [i \in 1..Len(pws[p].transfos) |->
                        Candidates(full, pws[p].transfos[i])]]]

\* Product as zip(*lists): the k-th candidates of the positions together
ProductAsZip(lists) ==
    IF lists = <<>> THEN << <<>> >>
    ELSE LET n == CHOOSE m \in 0..Len(lists[1]) :
                      /\ \A i \in 1..Len(lists) : Len(lists[i]) >= m
                      /\ m = Len(lists[1]) \/ \E i \in 1..Len(lists) : Len(lists[i]) = m
         IN [j \in 1..n |-> [i \in 1..Len(lists) |-> lists[i][j]]]

RECURSIVE ProductSkipEmpty(_)
\* Product that passes over the positions without candidate
ProductSkipEmpty(lists) ==
    IF lists = <<>> THEN << <<>> >>
    ELSE IF Head(lists) = <<>> THEN ProductSkipEmpty(Tail(lists))
    ELSE LET rest == ProductSkipEmpty(Tail(lists))
         IN Concat([i \in 1..Len(Head(lists)) |->
                       [j \in 1..Len(rest) |-> <<Head(lists)[i]>> \o rest[j]]])

\* itertools.product(*lists), as a list: the last position varies fastest
RECURSIVE Product(_)
Product(lists) ==
    IF lists = <<>> THEN << <<>> >>
    ELSE LET rest == Product(Tail(lists))
         IN Concat([i \in 1..Len(Head(lists)) |->
                       [j \in 1..Len(rest) |-> <<Head(lists)[i]>> \o rest[j]]])

\* ------------------------------------------------------ rpReaction, rpPathway
\* transfo['complement'][rule_ids][tmpl_rxn_id]['added_cmpds']
AddedCmpds(full, rxn) ==
    LET c == full[rxn.rp2_transfo_id].complement
        e == c[CHOOSE k \in 1..Len(c) : c[k].rule = rxn.rule_ids]
        m == e.tmpls[CHOOSE k \in 1..Len(e.tmpls) : e.tmpls[k].tmpl = rxn.tmpl_rxn_ids]
    IN m.added_cmpds

\* The transformations when the record
\* transfo['complement'][rule_ids][tmpl_rxn_id]['added_cmpds'] of the triplet
\* rxn, which is passed to __add_compounds as it is, holds `added`
WithAdded(full, rxn, added) ==
    LET c == full[rxn.rp2_transfo_id].complement
        tmpls_of(e) == [m \in 1..Len(e.tmpls) |->
                           IF e.tmpls[m].tmpl = rxn.tmpl_rxn_ids
                           THEN [e.tmpls[m] EXCEPT !.added_cmpds = added]
                           ELSE e.tmpls[m]]
    IN [full EXCEPT ![rxn.rp2_transfo_id].complement =
           [k \in 1..Len(c) |->
               IF c[k].rule = rxn.rule_ids
               THEN [c[k] EXCEPT !.tmpls = tmpls_of(c[k])]
               ELSE c[k]]]

\* `'right': deepcopy(transfo['right']), 'left': deepcopy(transfo['left'])`
\* (and `dict(...)` in __build_pathway_combinatorics): new maps, so a write
\* to them does not reach the transformation
CopyOfSides(transfo) == [right |-> transfo.right, left |-> transfo.left]

\* The __add_compounds call of one reaction of __build_all_pathways
ReactionCall(full, rxn) ==
    add_compounds_call(CopyOfSides(full[rxn.rp2_transfo_id]), AddedCmpds(full, rxn))

RECURSIVE TransfosAfterReactions(_, _)
\* The transformations after the __add_compounds calls made for the
\* reactions of one sub-pathway
TransfosAfterReactions(full, sub) ==
    IF sub = <<>> THEN full
    ELSE LET call == ReactionCall(full, Head(sub))
             after == WithAdded(full, Head(sub), call.compounds_to_add)
         IN TransfosAfterReactions(after, Tail(sub))

RECURSIVE LastReactionCall(_, _)
\* The last __add_compounds call made for a sub-pathway
LastReactionCall(full, sub) ==
    IF Len(sub) = 1 THEN ReactionCall(full, Head(sub))
    ELSE LET call == ReactionCall(full, Head(sub))
             after == WithAdded(full, Head(sub), call.compounds_to_add)
         IN LastReactionCall(after, Tail(sub))

\* The record kept of an __add_compounds call
CallRecord(call) ==
    [compounds |-> call.compounds, compounds_to_add |-> call.compounds_to_add,
     result |-> call.result, done |-> TRUE]

RECURSIVE AfterCandidates(_, _, _)
\* The transformations and the last __add_compounds call (st.full, st.ac)
\* after the calls of __build_pathway_combinatorics for the candidates of
\* one position: `compounds = __add_compounds(compounds, tmpl_rxn['added_cmpds'])`
AfterCandidates(st, compounds, cands) ==
    IF cands = <<>> THEN st
    ELSE LET call == add_compounds_call(compounds, AddedCmpds(st.full, Head(cands)))
             after == [full |-> WithAdded(st.full, Head(cands), call.compounds_to_add),
                       ac |-> CallRecord(call)]
         IN AfterCandidates(after, call.result, Tail(cands))

RECURSIVE AfterPositions(_, _)
\* ... for the transformations of one master pathway: `compounds` starts
\* from the `dict(...)` copies of the two sides of the transformation
AfterPositions(st, transfos_lst) ==
    IF transfos_lst = <<>> THEN st
    ELSE LET t == Head(transfos_lst)
             after == AfterCandidates(st, CopyOfSides(st.full[t]),
                                      Candidates(st.full, t))
         IN AfterPositions(after, Tail(transfos_lst))

RECURSIVE AfterCombinatorics(_, _)
\* ... for all the master pathways
AfterCombinatorics(st, pws) ==
    IF pws = <<>> THEN st
    ELSE LET after == AfterPositions(st, Head(pws).transfos)
         IN AfterCombinatorics(after, Tail(pws))

\* the species ids of an added-compounds record, over its four maps
AddedIds(added) ==
    DOMAIN added.right \cup DOMAIN added.left
    \cup DOMAIN added.right_nostruct \cup DOMAIN added.left_nostruct

\* RegisterAdded without `if spe_id not in Cache.get_objects()`: every
\* added species is registered, in the registry or not
RegisterAddedAgain(cache, added) ==
    [x \in DOMAIN cache \cup AddedIds(added) |->
        IF x \in AddedIds(added)
        THEN IF x \in CompoundsCacheIds THEN "full" ELSE "id_only"
        ELSE cache[x]]

\* `if spe_id not in Cache.get_objects()`: rpCompound(...) with the data of
\* the compounds cache, or rpCompound(id=spe_id) on KeyError
RegisterAdded(cache, added) ==
    [x \in DOMAIN cache \cup AddedIds(added) |->
        IF x \in DOMAIN cache THEN cache[x]
        ELSE IF x \in CompoundsCacheIds THEN "full" ELSE "id_only"]

\* the index left as it is in the retrosynthetic order, from 1
rxn_idx_kept(nb_reactions, rxn_idx) == rxn_idx + 1

\* revert reaction index (forward)
rxn_idx_forward(nb_reactions, rxn_idx) == nb_reactions - rxn_idx

\* The rpReaction built from the triplet at zero-based position rxn_idx of
\* a sub-pathway of nb_reactions triplets
BuildReaction(full, rr, triplet, rxn_idx, nb_reactions) ==
    LET transfo == full[triplet.rp2_transfo_id]
        core_species == [right |-> transfo.right, left |-> transfo.left]
        compounds == add_compounds(core_species, AddedCmpds(full, triplet))
    IN [id |-> rxn_idx_forward(nb_reactions, rxn_idx),
        ec_numbers |-> transfo.ec,
        reactants |-> compounds.left,
        products |-> compounds.right,
        lower_flux_bound |-> default_lower_flux_bound,
        upper_flux_bound |-> default_upper_flux_bound,
        rp2_transfo_id |-> triplet.rp2_transfo_id,
        rule_ids |-> <<triplet.rule_ids>>,
        tmpl_rxn_ids |-> <<triplet.tmpl_rxn_ids>>,
        rule_score |-> rr[<<triplet.rule_ids, triplet.tmpl_rxn_ids>>],
        idx_in_path |-> rxn_idx_forward(nb_reactions, rxn_idx)]

\* rpPathway.get_species_ids(): the species of all the reactions
get_species_ids(reactions) ==
    UNION {DOMAIN reactions[i].reactants \cup DOMAIN reactions[i].products :
              i \in 1..Len(reactions)}

\* SinkSpecies collected reaction by reaction, without the set
SinkSpeciesPerReaction(reactions, sink) ==
    {Concat([i \in 1..Len(reactions) |->
                SetToSeq((DOMAIN reactions[i].reactants \cup DOMAIN reactions[i].products)
                         \cap Range(sink))])}

\* list(set(pathway.get_species_ids()) & set(sink_molecules)): the lists
\* that the call may give
SinkSpecies(reactions, sink) ==
    ListsOfSet(get_species_ids(reactions) \cap Range(sink))

\* The reactions of the pathway of one sub-pathway, in the order of the
\* triplets
PathwayReactions(full, rr, sub) ==
    [i \in 1..Len(sub) |-> BuildReaction(full, rr, sub[i], i - 1, Len(sub))]

\* The rpPathway assembled from one sub-pathway (a tuple of triplets), when
\* list(set & set) gave sink_species
BuildPathway(full, rr, sink_species, path_id, sub_path_idx, sub) ==
    LET n == Len(sub)
    IN [id |-> <<path_id, sub_path_idx + 1>>,
        reactions |-> PathwayReactions(full, rr, sub),
        trunk |-> UNION {DOMAIN full[sub[i].rp2_transfo_id].left
                         \cup DOMAIN full[sub[i].rp2_transfo_id].right : i \in 1..n},
        completed |-> UNION {AddedIds(AddedCmpds(full, sub[i])) : i \in 1..n},
        sink |-> sink_species]

RECURSIVE RegisterAll(_, _, _)
\* the compound registry after the reactions of one sub-pathway
RegisterAll(cache, full, sub) ==
    IF sub = <<>> THEN cache
    ELSE LET registered == RegisterAdded(cache, AddedCmpds(full, Head(sub)))
         IN RegisterAll(registered, full, Tail(sub))

\* rpReaction.__eq__: the rule and template ids are not compared
RxnEq(a, b) ==
    /\ a.reactants = b.reactants
    /\ a.products = b.products
    /\ a.lower_flux_bound = b.lower_flux_bound
    /\ a.upper_flux_bound = b.upper_flux_bound
    /\ a.ec_numbers = b.ec_numbers

\* rpPathway.__eq__
PathwayEq(a, b) ==
    /\ Len(a.reactions) = Len(b.reactions)
    /\ \A i \in 1..Len(a.reactions) : RxnEq(a.reactions[i], b.reactions[i])

\* rpPathway.get_mean_rule_score(), as the fraction num/den
get_mean_rule_score(pathway) ==
    [num |-> SeqSum([i \in 1..Len(pathway.reactions) |-> pathway.reactions[i].rule_score]),
     den |-> Len(pathway.reactions)]

\* comparison of two scores (fractions with positive denominators)
ScoreLt(a, b) == a.num * b.den < b.num * a.den
ScoreLe(a, b) == a.num * b.den <= b.num * a.den

\* ---------------------------------------------------- __keep_unique_pathways
RECURSIVE AppendMissing(_, _)
\* `for x in src: if x not in dst: dst.add(x)` on lists of ids
AppendMissing(dst, src) ==
    IF src = <<>> THEN dst
    ELSE LET added == IF Head(src) \in Range(dst) THEN dst ELSE dst \o <<Head(src)>>
         IN AppendMissing(added, Tail(src))

\* CopyIds without its second loop: the rule ids are not copied
CopyTmplIdsOnly(_rxn, rxn) ==
    [_rxn EXCEPT !.tmpl_rxn_ids = AppendMissing(@, rxn.tmpl_rxn_ids)]

\* the body of `if rxn == _rxn:`: the ids of rxn copied into _rxn
CopyIds(_rxn, rxn) ==
    [_rxn EXCEPT !.tmpl_rxn_ids = AppendMissing(@, rxn.tmpl_rxn_ids),
                 !.rule_ids = AppendMissing(@, rxn.rule_ids)]

RECURSIVE MergeRxn(_, _)
\* What the two nested loops over the reactions do to one reaction _rxn of
\* the entry: every reaction rxn of the pathway, in order, that is equal to
\* _rxn copies its ids into it
MergeRxn(_rxn, rxns) ==
    IF rxns = <<>> THEN _rxn
    ELSE LET copied == IF RxnEq(Head(rxns), _rxn) THEN CopyIds(_rxn, Head(rxns))
                       ELSE _rxn
         IN MergeRxn(copied, Tail(rxns))

\* The entry _pathway after the loop body, when pathway == _pathway.object
MergeItem(_pathway, pathway) ==
    [_pathway EXCEPT !.object.reactions =
        [j \in 1..Len(@) |-> MergeRxn(@[j], pathway.reactions)]]

\* Item(pathway, score)
Item(pathway, score) == [object |-> pathway, score |-> score]

RECURSIVE BisectRight(_, _, _, _)
\* bisect.bisect_right(a, x, lo, hi) with Item.__lt__ comparing the scores
BisectRight(a, x, lo, hi) ==
    IF lo >= hi THEN lo
    ELSE LET mid == (lo + hi) \div 2
         IN IF ScoreLt(x.score, a[mid + 1].score)
            THEN BisectRight(a, x, lo, mid)
            ELSE BisectRight(a, x, mid + 1, hi)

\* insert_and_or_replace_in_sorted_list(item, sorted_list) for an item equal
\* to none of the list: bisect.insort
insert_in_sorted_list(item, sorted_list) ==
    LET k == BisectRight(sorted_list, item, 0, Len(sorted_list))
    IN SubSeq(sorted_list, 1, k) \o <<item>> \o SubSeq(sorted_list, k + 1, Len(sorted_list))

pathway_found(pathways, pathway) ==
    \E k \in 1..Len(pathways) : PathwayEq(pathway, pathways[k].object)

\* keep_unique_pathways that looks at the first entry of the list only
keep_unique_first_entry(pathways, pathway) ==
    IF pathways # <<>> /\ PathwayEq(pathway, pathways[1].object)
    THEN <<MergeItem(pathways[1], pathway)>> \o Tail(pathways)
    ELSE insert_in_sorted_list(Item(pathway, get_mean_rule_score(pathway)), pathways)

\* keep_unique_pathways with the new item put at the end of the list
keep_unique_append(pathways, pathway) ==
    IF pathway_found(pathways, pathway)
    THEN [k \in 1..Len(pathways) |->
             IF PathwayEq(pathway, pathways[k].object)
             THEN MergeItem(pathways[k], pathway)
             ELSE pathways[k]]
    ELSE Append(pathways, Item(pathway, get_mean_rule_score(pathway)))

keep_unique_pathways(pathways, pathway) ==
    LET merged == [k \in 1..Len(pathways) |->
                      IF PathwayEq(pathway, pathways[k].object)
                      THEN MergeItem(pathways[k], pathway)
                      ELSE pathways[k]]
    IN IF pathway_found(pathways, pathway)
       THEN merged
       ELSE insert_in_sorted_list(Item(pathway, get_mean_rule_score(pathway)), merged)

\* ------------------------------------------------- the global selection
RECURSIVE Sorted(_)
\* sorted(items): stable, by Item.__lt__
Sorted(items) ==
    IF items = <<>> THEN <<>>
    ELSE LET before == Sorted(SubSeq(items, 1, Len(items) - 1))
         IN insert_in_sorted_list(items[Len(items)], before)

\* Suffix that keeps one entry too many
SuffixOneMore(s, k) ==
    IF k + 1 >= Len(s) THEN s ELSE SubSeq(s, Len(s) - k, Len(s))

\* The slice taken at the head of the list: a_list[:k]
PrefixSlice(s, k) == SubSeq(s, 1, IF k <= Len(s) THEN k ELSE Len(s))

\* a_list[-k:]
Suffix(s, k) ==
    IF k = 0 \/ k >= Len(s) THEN s ELSE SubSeq(s, Len(s) - k + 1, Len(s))

\* sorted(sum(res_pathways.values(), []))[-max_subpaths_filter:], then the
\* objects of the items
SelectPathways(res, k) ==
    LET ranked == Sorted(Concat(res))
        sel == Suffix(ranked, k)
    IN [i \in 1..Len(sel) |-> sel[i].object]

\* ------------------------------------------------------------------ inputs
\* The pathways files: every sequence of at most MaxRows rows with an
\* integer 'Path ID', and the file of the one row of T1 with the 'Path ID'
\* that is no integer
Rows == [path_id : IntPathIds, transfo_id : TransfoIds]
RECURSIVE SeqsUpTo(_, _)
SeqsUpTo(S, n) ==
    IF n = 0 THEN { <<>> }
    ELSE LET shorter == SeqsUpTo(S, n - 1)
         IN shorter \cup {Append(q, x) : q \in {r \in shorter : Len(r) = n - 1}, x \in S}
PathwaysFiles ==
    SeqsUpTo(Rows, MaxRows)
    \cup { <<[path_id |-> id, transfo_id |-> "T1"]>> : id \in PathIds \ IntPathIds }

\* EC numbers of the metabolic network file ("NOEC" already filtered out)
EcOf(t) == IF t = "T1" THEN <<"1.1.1.1">> ELSE <<>>
\* What __read_rp2_metnet may return in a run over the transformations ids:
\* {} (file not found), or an entry for each transformation the file lists
\* (all those of the run, or all but T2)
MetnetResults(ids) ==
    { [t \in L |-> EcOf(t)] : L \in {{}, Range(ids) \ {"T2"}, Range(ids)} }

\* What __read_sink returns: [] when the file is missing, and else
\* list(sink_molecules) of the set of the ids of the file. X and Y are species
\* of some pathways and of no transformation.
SinkResults == { <<>> } \cup ListsOfSet({"X", "Y"})

\* The answers of rebuild_rxn to the queries of one run: one answer per
\* (transformation, rule) queried, <<>> for the pairs never queried
Queried(tf) == UNION {{<<t, r>> : r \in Range(tf.val[t].rule_ids)} : t \in Range(tf.ids)}
AllAnswers == UNION {RebuildAnswers(q[1], q[2]) : q \in TransfoIds \X Rules}
RebuildResults(tf) ==
    { rb \in [TransfoIds \X Rules -> AllAnswers] :
        \A q \in TransfoIds \X Rules :
            IF q \in Queried(tf) THEN rb[q] \in RebuildAnswers(q[1], q[2])
            ELSE rb[q] = <<>> }

\* The (rule, template) pairs of the candidate lists
UsedPairs(comb) ==
    UNION {UNION {{<<comb[p].lists[i][c].rule_ids, comb[p].lists[i][c].tmpl_rxn_ids>> :
                      c \in 1..Len(comb[p].lists[i])} :
                  i \in 1..Len(comb[p].lists)} :
           p \in 1..Len(comb)}
\* The rule-score tables (rr_reactions[rule][tmpl]['rule_score']) of a run;
\* the score of a pair that is never looked up is left at 1
ScoreTables(comb) ==
    { rr \in [Rules \X Tmpls -> RuleScores] :
        \A q \in (Rules \X Tmpls) \ UsedPairs(comb) : rr[q] = 1 }

\* ------------------------------------------------------------------- state
VARIABLES
    pc,                    \* where rp_completion is
    df,                    \* the rows of the pathways file
    max_subpaths_filter,   \* rp_completion's parameter
    pathways, transfos,    \* what __read_pathways returned
    ec_numbers,            \* what __read_rp2_metnet returned
    sink_molecules,        \* what __read_sink returned
    full_transfos,         \* what __complete_transformations returned
    pathway_combinatorics, \* what __build_pathway_combinatorics returned
    rr_reactions,          \* cache.get('rr_reactions'), as rule scores
    res_pathways,          \* __build_all_pathways: one list of Items per master pathway
    nb_pathways, nb_unique_pathways,
    path_pos,              \* position of the master pathway of the outer loop
    sub_path_idx,          \* index of the inner loop
    all_pathways,          \* what __build_all_pathways returned
    Cache,                 \* the compound registry: id -> kind of record
    ac                     \* the last __add_compounds call: its two arguments
                           \* after the call and its result

vars == <<pc, df, max_subpaths_filter, pathways, transfos, ec_numbers, sink_molecules,
          full_transfos, pathway_combinatorics, rr_reactions, res_pathways,
          nb_pathways, nb_unique_pathways, path_pos, sub_path_idx, all_pathways,
          Cache, ac>>

NoSides == [right |-> EmptyMap, left |-> EmptyMap]
NoCall == [compounds |-> NoSides, compounds_to_add |-> NoAdded, result |-> NoSides,
           done |-> FALSE]

\* The registry after __rp2paths_compounds_in_cache: the species of the
\* compounds file, i.e. those of the transformations, each with the SMILES
\* of the file and with the other fields of the compounds cache, if any
CacheAfterCompoundsFile ==
    [x \in {"A", "B", "TARGET_1"} |->
        IF x \in CompoundsCacheIds THEN "full" ELSE "smiles_only"]

Init ==
    /\ pc = "read_pathways"
    /\ df \in PathwaysFiles
    /\ max_subpaths_filter \in 1..MaxFilter
    /\ pathways = <<>>
    /\ transfos = [ids |-> <<>>, val |-> EmptyMap]
    /\ ec_numbers = EmptyMap
    /\ sink_molecules = <<>>
    /\ full_transfos = EmptyMap
    /\ pathway_combinatorics = <<>>
    /\ rr_reactions = EmptyMap
    /\ res_pathways = <<>>
    /\ nb_pathways = 0
    /\ nb_unique_pathways = 0
    /\ path_pos = 0
    /\ sub_path_idx = 0
    /\ all_pathways = <<>>
    /\ Cache = CacheAfterCompoundsFile
    /\ ac = NoCall

\* ----------------------------------------------------------------- actions
\* __read_pathways(rp2paths_pathways)
read_pathways ==
    /\ pc = "read_pathways"
    /\ IF ReadAborts(df)
       THEN /\ pc' = "exit"
            /\ UNCHANGED <<pathways, transfos>>
       ELSE /\ pc' = "read_rp2_metnet"
            /\ pathways' = ReadPathwaysDict(df)
            /\ transfos' = read_transfos(df)
    /\ UNCHANGED <<df, max_subpaths_filter, ec_numbers, sink_molecules, full_transfos,
                   pathway_combinatorics, rr_reactions, res_pathways, nb_pathways,
                   nb_unique_pathways, path_pos, sub_path_idx, all_pathways, Cache, ac>>

\* __read_rp2_metnet(rp2_metnet)
read_rp2_metnet ==
    /\ pc = "read_rp2_metnet"
    /\ ec_numbers' \in MetnetResults(transfos.ids)
    /\ pc' = "read_sink"
    /\ UNCHANGED <<df, max_subpaths_filter, pathways, transfos, sink_molecules,
                   full_transfos, pathway_combinatorics, rr_reactions, res_pathways,
                   nb_pathways, nb_unique_pathways, path_pos, sub_path_idx,
                   all_pathways, Cache, ac>>

\* __read_sink(sink)
read_sink ==
    /\ pc = "read_sink"
    /\ sink_molecules' \in SinkResults
    /\ pc' = "complete_transformations"
    /\ UNCHANGED <<df, max_subpaths_filter, pathways, transfos, ec_numbers,
                   full_transfos, pathway_combinatorics, rr_reactions, res_pathways,
                   nb_pathways, nb_unique_pathways, path_pos, sub_path_idx,
                   all_pathways, Cache, ac>>

\* __complete_transformations(transfos, ec_numbers, cache)
complete_transformations_step ==
    /\ pc = "complete_transformations"
    /\ IF CompleteRaises(transfos.ids, ec_numbers)
       THEN /\ pc' = "KeyError"
            /\ UNCHANGED full_transfos
       ELSE /\ pc' = "build_pathway_combinatorics"
            /\ \E rb \in RebuildResults(transfos) :
                  full_transfos' = complete_transformations(transfos, ec_numbers, rb)
    /\ UNCHANGED <<df, max_subpaths_filter, pathways, transfos, ec_numbers,
                   sink_molecules, pathway_combinatorics, rr_reactions, res_pathways,
                   nb_pathways, nb_unique_pathways, path_pos, sub_path_idx,
                   all_pathways, Cache, ac>>

\* __build_pathway_combinatorics(full_transfos, pathways), and the call of
\* __build_all_pathways with the rule scores of the cache
build_pathway_combinatorics_step ==
    /\ pc = "build_pathway_combinatorics"
    /\ pathway_combinatorics' = build_pathway_combinatorics(full_transfos, pathways)
    /\ LET after == AfterCombinatorics([full |-> full_transfos, ac |-> ac], pathways)
       IN /\ full_transfos' = after.full
          /\ ac' = after.ac
    /\ rr_reactions' \in ScoreTables(pathway_combinatorics')
    /\ pc' = "master"
    /\ UNCHANGED <<df, max_subpaths_filter, pathways, transfos, ec_numbers,
                   sink_molecules, res_pathways, nb_pathways,
                   nb_unique_pathways, path_pos, sub_path_idx, all_pathways, Cache>>

\* sub_pathways = list(itertools_product(*transfos_lst)) of the current
\* master pathway
sub_pathways == Product(pathway_combinatorics[path_pos].lists)

\* __build_all_pathways: the head of one turn of `for path_idx, transfos_lst`
next_master ==
    /\ pc = "master"
    /\ path_pos < Len(pathway_combinatorics)
    /\ path_pos' = path_pos + 1
    /\ res_pathways' = Append(res_pathways, <<>>)
    /\ sub_path_idx' = 0
    /\ pc' = "sub_pathway"
    /\ UNCHANGED <<df, max_subpaths_filter, pathways, transfos, ec_numbers,
                   sink_molecules, full_transfos, pathway_combinatorics, rr_reactions,
                   nb_pathways, nb_unique_pathways, all_pathways, Cache, ac>>

\* __build_all_pathways: one turn of `for sub_path_idx in range(...)`:
\* the pathway is assembled, counted and given to __keep_unique_pathways
build_sub_pathway ==
    /\ pc = "sub_pathway"
    /\ sub_path_idx < Len(sub_pathways)
    /\ LET sub == sub_pathways[sub_path_idx + 1]
           rxns == PathwayReactions(full_transfos, rr_reactions, sub)
       IN /\ Cache' = RegisterAll(Cache, full_transfos, sub)
          /\ nb_pathways' = nb_pathways + 1
          /\ \E sink_species \in SinkSpecies(rxns, sink_molecules) :
                LET pathway == BuildPathway(full_transfos, rr_reactions, sink_species,
                                            pathway_combinatorics[path_pos].id,
                                            sub_path_idx, sub)
                IN res_pathways' = [res_pathways EXCEPT
                                       ![path_pos] = keep_unique_pathways(@, pathway)]
          /\ full_transfos' = TransfosAfterReactions(full_transfos, sub)
          /\ ac' = CallRecord(LastReactionCall(full_transfos, sub))
    /\ sub_path_idx' = sub_path_idx + 1
    /\ UNCHANGED <<pc, df, max_subpaths_filter, pathways, transfos, ec_numbers,
                   sink_molecules, pathway_combinatorics, rr_reactions,
                   nb_unique_pathways, path_pos, all_pathways>>

\* __build_all_pathways: the end of one turn of the outer loop
end_master ==
    /\ pc = "sub_pathway"
    /\ sub_path_idx = Len(sub_pathways)
    /\ nb_unique_pathways' = nb_unique_pathways + Len(res_pathways[path_pos])
    /\ pc' = "master"
    /\ UNCHANGED <<df, max_subpaths_filter, pathways, transfos, ec_numbers,
                   sink_molecules, full_transfos, pathway_combinatorics, rr_reactions,
                   res_pathways, nb_pathways, path_pos, sub_path_idx, all_pathways,
                   Cache, ac>>

\* __build_all_pathways: after the loops, the flattening, the global sort,
\* the slice and the return
select_pathways ==
    /\ pc = "master"
    /\ path_pos = Len(pathway_combinatorics)
    /\ all_pathways' = SelectPathways(res_pathways, max_subpaths_filter)
    /\ pc' = "done"
    /\ UNCHANGED <<df, max_subpaths_filter, pathways, transfos, ec_numbers,
                   sink_molecules, full_transfos, pathway_combinatorics, rr_reactions,
                   res_pathways, nb_pathways, nb_unique_pathways, path_pos,
                   sub_path_idx, Cache, ac>>

Next ==
    \/ read_pathways
    \/ read_rp2_metnet
    \/ read_sink
    \/ complete_transformations_step
    \/ build_pathway_combinatorics_step
    \/ next_master
    \/ build_sub_pathway
    \/ end_master
    \/ select_pathways

Spec == Init /\ [][Next]_vars

\* ------------------------------------------- __add_compounds called alone
\* Stoichiometric maps over a set of species, coefficients in 1..MaxCoef
MapsOver(S) == UNION {[D -> 1..MaxCoef] : D \in SUBSET S}

InitAdd ==
    /\ pc = "add_compounds"
    /\ \E r \in MapsOver({"A"}), l \in MapsOver({"A", "X"}),
          ar \in MapsOver({"A"}), al \in MapsOver({"A", "X"}),
          arn \in MapsOver({"A"}), aln \in MapsOver({"A", "X"}) :
          ac = [compounds |-> [right |-> r, left |-> l],
                compounds_to_add |-> [right |-> ar, left |-> al,
                                      right_nostruct |-> arn, left_nostruct |-> aln],
                result |-> NoSides,
                done |-> FALSE]
    /\ df = <<>>
    /\ max_subpaths_filter = 1
    /\ pathways = <<>>
    /\ transfos = [ids |-> <<>>, val |-> EmptyMap]
    /\ ec_numbers = EmptyMap
    /\ sink_molecules = <<>>
    /\ full_transfos = EmptyMap
    /\ pathway_combinatorics = <<>>
    /\ rr_reactions = EmptyMap
    /\ res_pathways = <<>>
    /\ nb_pathways = 0
    /\ nb_unique_pathways = 0
    /\ path_pos = 0
    /\ sub_path_idx = 0
    /\ all_pathways = <<>>
    /\ Cache = CacheAfterCompoundsFile

\* __add_compounds(compounds, compounds_to_add)
call_add_compounds ==
    /\ pc = "add_compounds"
    /\ ~ ac.done
    /\ ac' = CallRecord(add_compounds_call(ac.compounds, ac.compounds_to_add))
    /\ UNCHANGED <<pc, df, max_subpaths_filter, pathways, transfos, ec_numbers,
                   sink_molecules, full_transfos, pathway_combinatorics, rr_reactions,
                   res_pathways, nb_pathways, nb_unique_pathways, path_pos,
                   sub_path_idx, all_pathways, Cache>>

NextAdd == call_add_compounds

SpecAdd == InitAdd /\ [][NextAdd]_vars

\* ================================================================== claims
RECURSIVE IntProd(_)
IntProd(s) == IF s = <<>> THEN 1 ELSE Head(s) * IntProd(Tail(s))

Min(a, b) == IF a <= b THEN a ELSE b

NoRepeat(s) == \A i, j \in 1..Len(s) : i # j => s[i] # s[j]

\* The (rule id, template-reaction id) pairs present in the complement map
\* of a completed transformation
ComplementPairs(t) ==
    LET c == full_transfos[t].complement
    IN UNION {{<<c[k].rule, c[k].tmpls[m].tmpl>> : m \in 1..Len(c[k].tmpls)} :
                 k \in 1..Len(c)}

\* c_i of the claims: the number of candidates of a transformation
CandCount(t) == Cardinality(ComplementPairs(t))

\* c_1 * ... * c_n for the master pathway at position p
MasterCount(p) ==
    IntProd([i \in 1..Len(pathways[p].transfos) |-> CandCount(pathways[p].transfos[i])])

\* C1: for every master pathway whose positions have c1..cn candidates (one
\* per (rule id, template id) pair of the transformation's complement),
\* exactly c1*...*cn sub-pathways are assembled (none if some ci = 0), all
\* different, each made of one candidate triplet per position, in position
\* order; every pathway kept for it has one reaction per position.
C1_ProductOfCandidates ==
    /\ pc = "sub_pathway" =>
         LET trs == pathways[path_pos].transfos
             subs == sub_pathways
         IN /\ Len(subs) = MasterCount(path_pos)
            /\ (\E i \in 1..Len(trs) : CandCount(trs[i]) = 0) => Len(subs) = 0
            /\ nb_pathways = SeqSum([p \in 1..(path_pos - 1) |-> MasterCount(p)])
                              + sub_path_idx
            /\ sub_path_idx <= Len(subs)
            /\ Cardinality(Range(subs)) = Len(subs)
            /\ \A s \in 1..Len(subs) : Len(subs[s]) = Len(trs)
            /\ \A i \in 1..Len(trs) :
                  LET pairs == ComplementPairs(trs[i])
                  IN \A s \in 1..Len(subs) :
                        /\ subs[s][i].rp2_transfo_id = trs[i]
                        /\ <<subs[s][i].rule_ids, subs[s][i].tmpl_rxn_ids>> \in pairs
            /\ \A e \in 1..Len(res_pathways[path_pos]) :
                  LET rx == res_pathways[path_pos][e].object.reactions
                  IN /\ Len(rx) = Len(trs)
                     /\ \A i \in 1..Len(trs) : rx[i].rp2_transfo_id = trs[i]
    /\ pc = "done" =>
         nb_pathways = SeqSum([p \in 1..Len(pathways) |-> MasterCount(p)])

\* C1 witness: a master pathway of two positions with 3 and 2 candidates
\* has had its 6 sub-pathways assembled
C1_Witness ==
    /\ pc = "sub_pathway"
    /\ Len(pathways[path_pos].transfos) = 2
    /\ CandCount(pathways[path_pos].transfos[1]) = 3
    /\ CandCount(pathways[path_pos].transfos[2]) = 2
    /\ sub_path_idx = 6

\* the pathways of the entries of the per-master list at position p
Entries(p) == [e \in 1..Len(res_pathways[p]) |-> res_pathways[p][e].object]

\* structural equality of two pathways, as the claims define it: the same
\* number of reactions and, pairwise, the same reactant map, product map,
\* flux bounds and EC numbers (rule and template ids ignored)
StructEq(a, b) ==
    /\ Len(a.reactions) = Len(b.reactions)
    /\ \A i \in 1..Len(a.reactions) :
          LET x == a.reactions[i]
              y == b.reactions[i]
          IN /\ x.reactants = y.reactants
             /\ x.products = y.products
             /\ x.lower_flux_bound = y.lower_flux_bound
             /\ x.upper_flux_bound = y.upper_flux_bound
             /\ x.ec_numbers = y.ec_numbers

\* the pathway assembled from sub-pathway number s (from 1) of the current
\* master pathway, its list of sink species left empty
Assembled(s) ==
    BuildPathway(full_transfos, rr_reactions, <<>>,
                 pathway_combinatorics[path_pos].id, s - 1, sub_pathways[s])

NoTwoEqual(p) ==
    \A a, b \in 1..Len(res_pathways[p]) :
        a # b => ~ StructEq(Entries(p)[a], Entries(p)[b])

\* C2: after every __keep_unique_pathways call the list of the master
\* pathway holds no two structurally equal entries, and a call whose pathway
\* is structurally equal to an entry leaves the length of the list unchanged.
C2_NoEqualEntries ==
    [][build_sub_pathway =>
          /\ NoTwoEqual(path_pos)'
          /\ (\E e \in 1..Len(res_pathways[path_pos]) :
                  StructEq(Entries(path_pos)[e], Assembled(sub_path_idx + 1)))
               => Len(res_pathways'[path_pos]) = Len(res_pathways[path_pos])
          /\ Len(res_pathways'[path_pos]) >= 1]_vars

\* C2 witness: a call whose pathway was already in the list has been made:
\* more pathways were given to the list than it holds
C2_Witness ==
    /\ pc = "sub_pathway"
    /\ sub_path_idx = 3
    /\ Len(res_pathways[path_pos]) = 2

\* the pathway assembled from the tuple of triplets sub, number s (from 1)
\* of the current master pathway, its list of sink species left empty
AssembledFrom(sub, s) ==
    BuildPathway(full_transfos, rr_reactions, <<>>,
                 pathway_combinatorics[path_pos].id, s - 1, sub)

\* C3: the entry that stands for structurally equal sub-pathways carries, in
\* its reaction at each position, every rule id and every template-reaction
\* id of the reactions at that position of all these sub-pathways, and no id
\* is listed twice; every entry stands for at least one sub-pathway.
C3_UnionOfIds ==
    pc = "sub_pathway" =>
        LET subs == sub_pathways
            entries == Entries(path_pos)
        IN /\ \A e \in 1..Len(entries) :
                 LET rx == entries[e].reactions
                     first == entries[e].id[2]
                 IN /\ first \in 1..sub_path_idx
                    /\ StructEq(AssembledFrom(subs[first], first), entries[e])
                    /\ \A i \in 1..Len(rx) :
                          NoRepeat(rx[i].rule_ids) /\ NoRepeat(rx[i].tmpl_rxn_ids)
           /\ \A s \in 1..sub_path_idx :
                 LET built == AssembledFrom(subs[s], s)
                 IN \A e \in 1..Len(entries) :
                       StructEq(built, entries[e]) =>
                           \A i \in 1..Len(subs[s]) :
                               /\ subs[s][i].rule_ids
                                     \in Range(entries[e].reactions[i].rule_ids)
                               /\ subs[s][i].tmpl_rxn_ids
                                     \in Range(entries[e].reactions[i].tmpl_rxn_ids)

\* C3 witness: two sub-pathways that differ only in their template-reaction
\* id have collapsed to one entry that carries both template ids
C3_Witness ==
    /\ pc = "sub_pathway"
    /\ sub_path_idx = 2
    /\ Len(res_pathways[path_pos]) = 1
    /\ \A i \in 1..Len(sub_pathways[1]) :
          sub_pathways[1][i].rule_ids = sub_pathways[2][i].rule_ids
    /\ StructEq(Assembled(1), Assembled(2))
    /\ \E i \in 1..Len(Entries(path_pos)[1].reactions) :
          Range(Entries(path_pos)[1].reactions[i].tmpl_rxn_ids) = {"m1", "m2"}

\* U of the claims: the sum of the lengths of the deduplicated lists
TotalUnique == SeqSum([p \in 1..Len(res_pathways) |-> Len(res_pathways[p])])

\* C4: the list returned by __build_all_pathways has exactly
\* min(max_subpaths_filter, U) pathways, U the sum of the lengths of the
\* deduplicated lists of the master pathways (the logged number of unique
\* pathways), in non-decreasing order of score.
C4_SizeAndOrder ==
    pc = "done" =>
        /\ Len(all_pathways) = Min(max_subpaths_filter, TotalUnique)
        /\ nb_unique_pathways = TotalUnique
        /\ \A i \in 1..(Len(all_pathways) - 1) :
              ScoreLe(get_mean_rule_score(all_pathways[i]),
                      get_mean_rule_score(all_pathways[i + 1]))

\* C4 witness: more unique pathways than the cap, of different scores
C4_Witness ==
    /\ pc = "done"
    /\ max_subpaths_filter = 2
    /\ TotalUnique > 2
    /\ Len(pathways) = 2
    /\ ScoreLt(get_mean_rule_score(all_pathways[1]), get_mean_rule_score(all_pathways[2]))

\* the deduplicated pathways of all the master pathways
AllUnique == UNION {Range(Entries(p)) : p \in 1..Len(res_pathways)}

\* C5: every pathway of the returned list has a score greater than or
\* equal to the score of every deduplicated pathway that was left out,
\* whichever master pathway each came from; the returned pathways are
\* deduplicated pathways.
C5_KeepsHighest ==
    pc = "done" =>
        /\ Range(all_pathways) \subseteq AllUnique
        /\ \A kept \in Range(all_pathways) :
              \A out \in AllUnique \ Range(all_pathways) :
                  ScoreLe(get_mean_rule_score(out), get_mean_rule_score(kept))

\* C5 witness: a pathway of the first master pathway was left out for a
\* strictly better one of the second master pathway
C5_Witness ==
    /\ pc = "done"
    /\ Len(pathways) = 2
    /\ \E out \in Range(Entries(1)) \ Range(all_pathways) :
          \E kept \in Range(Entries(2)) \cap Range(all_pathways) :
              ScoreLt(get_mean_rule_score(out), get_mean_rule_score(kept))

\* C6: when the pathways input has zero rows or a 'Path ID' that is not an
\* integer, __read_pathways aborts the run: nothing is returned from such an
\* input and no later stage runs.
C6_AbortsOnBadInput ==
    (Len(df) = 0 \/ \E i \in 1..Len(df) : df[i].path_id \notin IntPathIds)
        => pc \in {"read_pathways", "exit"}

\* the master pathways that have a candidate at every position
HasEmptyPosition(m) == \E i \in 1..Len(m.lists) : m.lists[i] = <<>>
FullMasters == SelectSeq(pathway_combinatorics, LAMBDA m : ~ HasEmptyPosition(m))

RECURSIVE ExpandedAlone(_, _, _)
\* the deduplicated list of the master pathway of id `id` after the first n
\* of its sub-pathways subs, were it expanded on its own, the sink species
\* of each pathway in the fixed enumeration
ExpandedAlone(id, subs, n) ==
    IF n = 0 THEN <<>>
    ELSE LET before == ExpandedAlone(id, subs, n - 1)
             rxns == PathwayReactions(full_transfos, rr_reactions, subs[n])
             sink_species == SetToSeq(get_species_ids(rxns) \cap Range(sink_molecules))
             pathway == BuildPathway(full_transfos, rr_reactions, sink_species, id,
                                     n - 1, subs[n])
         IN keep_unique_pathways(before, pathway)

ListAlone(m) == LET subs == Product(m.lists) IN ExpandedAlone(m.id, subs, Len(subs))

\* a list of pathways with the sink species of each in the fixed enumeration
SinksEnumerated(l) ==
    [i \in 1..Len(l) |-> [l[i] EXCEPT !.sink = SetToSeq(Range(@))]]

\* C7: a master pathway with a position that has no candidate is no
\* failure: the run goes on, the master pathway adds 0 to the counters of
\* sub-pathways and of unique sub-pathways and nothing to the result, and the
\* counters and the result are those of the other master pathways alone (up
\* to the order of the sink species of a pathway, which no input decides).
C7_EmptyPositionIsSilent ==
    /\ (pc = "sub_pathway" /\ HasEmptyPosition(pathway_combinatorics[path_pos])) =>
          /\ sub_path_idx = 0
          /\ res_pathways[path_pos] = <<>>
          /\ ENABLED end_master
    /\ pc = "done" =>
          /\ \A p \in 1..Len(pathway_combinatorics) :
                HasEmptyPosition(pathway_combinatorics[p]) => res_pathways[p] = <<>>
          /\ nb_pathways =
                SeqSum([p \in 1..Len(FullMasters) |-> Len(Product(FullMasters[p].lists))])
          /\ LET full == FullMasters
                 alone == [p \in 1..Len(full) |-> ListAlone(full[p])]
             IN /\ SinksEnumerated(all_pathways)
                      = SelectPathways(alone, max_subpaths_filter)
                /\ nb_unique_pathways = SeqSum([p \in 1..Len(full) |-> Len(alone[p])])

\* C7 witness: a run is done whose first master pathway had a position
\* without candidate and whose second one gave pathways
C7_Witness ==
    /\ pc = "done"
    /\ Len(pathway_combinatorics) = 2
    /\ HasEmptyPosition(pathway_combinatorics[1])
    /\ \E r \in 1..Len(full_transfos[pathways[1].transfos[1]].complement) :
          full_transfos[pathways[1].transfos[1]].complement[r].tmpls = <<>>
    /\ nb_pathways >= 2
    /\ all_pathways # <<>>

\* C8: a transformation whose id is not in the ec_numbers map is completed
\* with an empty EC list: __complete_transformations raises nothing and
\* completes every transformation.
C8_MissingEcIsEmpty ==
    pc \notin {"read_pathways", "exit", "read_rp2_metnet", "read_sink",
               "complete_transformations", "add_compounds"} =>
        /\ pc # "KeyError"
        /\ \A t \in Range(transfos.ids) :
              /\ t \in DOMAIN full_transfos
              /\ full_transfos[t].ec = IF t \in DOMAIN ec_numbers THEN ec_numbers[t]
                                        ELSE <<>>

Coef(m, x) == IF x \in DOMAIN m THEN m[x] ELSE 0

\* C9: __add_compounds sums: on each side the merged coefficient of a
\* species is its original coefficient plus its coefficient in the side's
\* added map with structure plus its coefficient in the side's added map
\* without structure (0 where absent), and the ids of the merged side are
\* the union of the ids of the three maps.
C9_AddCompoundsSums ==
    ac.done =>
        /\ DOMAIN ac.result = {"right", "left"}
        /\ DOMAIN ac.result.right =
              DOMAIN ac.compounds.right \cup DOMAIN ac.compounds_to_add.right
              \cup DOMAIN ac.compounds_to_add.right_nostruct
        /\ DOMAIN ac.result.left =
              DOMAIN ac.compounds.left \cup DOMAIN ac.compounds_to_add.left
              \cup DOMAIN ac.compounds_to_add.left_nostruct
        /\ \A x \in DOMAIN ac.result.right :
              ac.result.right[x] = Coef(ac.compounds.right, x)
                                   + Coef(ac.compounds_to_add.right, x)
                                   + Coef(ac.compounds_to_add.right_nostruct, x)
        /\ \A x \in DOMAIN ac.result.left :
              ac.result.left[x] = Coef(ac.compounds.left, x)
                                  + Coef(ac.compounds_to_add.left, x)
                                  + Coef(ac.compounds_to_add.left_nostruct, x)

\* C9 witness: a species of the original left side is in both added maps
\* of that side, another one is in neither
C9_Witness ==
    /\ ac.done
    /\ "A" \in DOMAIN ac.compounds.left
    /\ "A" \in DOMAIN ac.compounds_to_add.left
    /\ "A" \in DOMAIN ac.compounds_to_add.left_nostruct
    /\ "X" \in DOMAIN ac.compounds.left
    /\ "X" \notin DOMAIN ac.compounds_to_add.left
    /\ "X" \notin DOMAIN ac.compounds_to_add.left_nostruct
    /\ ac.result.left["A"] = 3

\* the species ids of the reactions of a pathway
SpeciesOf(pathway) ==
    {x \in Species \cup Range(sink_molecules) :
        \E i \in 1..Len(pathway.reactions) :
            x \in DOMAIN pathway.reactions[i].reactants
            \/ x \in DOMAIN pathway.reactions[i].products}

SinkIsRight(pathway) ==
    /\ \A x \in Species \cup Range(sink_molecules) \cup Range(pathway.sink) :
          x \in Range(pathway.sink)
              <=> (x \in SpeciesOf(pathway) /\ x \in Range(sink_molecules))
    /\ NoRepeat(pathway.sink)

\* C10: for every assembled pathway, a species id is in its sink-species
\* list if and only if it is a species of the pathway and is in the sink,
\* and no id is twice in the list, whichever order the list has.
C10_SinkSpecies ==
    /\ pc = "sub_pathway" =>
          /\ sub_path_idx > 0 =>
                LET last == AssembledFrom(sub_pathways[sub_path_idx], sub_path_idx)
                IN \A sink_species \in SinkSpecies(last.reactions, sink_molecules) :
                      SinkIsRight([last EXCEPT !.sink = sink_species])
          /\ \A e \in 1..Len(res_pathways[path_pos]) :
                SinkIsRight(res_pathways[path_pos][e].object)
    /\ pc = "done" => \A i \in 1..Len(all_pathways) : SinkIsRight(all_pathways[i])

\* C10 witness: a sink species is in two reactions of a returned pathway,
\* which also holds species that are not in the sink, and a sink species is
\* in none of its reactions
C10_Witness ==
    /\ pc = "done"
    /\ \E i \in 1..Len(all_pathways) :
          /\ Len(all_pathways[i].reactions) = 2
          /\ "X" \in DOMAIN all_pathways[i].reactions[1].reactants
          /\ "X" \in DOMAIN all_pathways[i].reactions[2].reactants
          /\ "X" \in Range(all_pathways[i].sink)
          /\ "A" \notin Range(all_pathways[i].sink)
          /\ "Y" \in Range(sink_molecules)
          /\ "Y" \notin Range(all_pathways[i].sink)

\* the entries of the list of master pathway p that are among its m best
\* whatever the order given to equal scores: fewer than m other entries
\* have a score greater than or equal to theirs
AmongBest(p, m) ==
    LET l == res_pathways[p]
    IN {e \in 1..Len(l) :
           Cardinality({o \in 1..Len(l) : o # e /\ ScoreLe(l[e].score, l[o].score)}) < m}

\* C11: max_subpaths_filter pathways are kept per master pathway: for every
\* master pathway with u unique pathways, its min(max_subpaths_filter, u)
\* highest-scoring unique pathways are all in the returned list, whatever
\* the scores of the pathways of the other master pathways.
C11_BestPerMaster ==
    pc = "done" =>
        \A p \in 1..Len(res_pathways) :
            LET m == Min(max_subpaths_filter, Len(res_pathways[p]))
            IN \A e \in AmongBest(p, m) :
                   res_pathways[p][e].object \in Range(all_pathways)

\* forward indices of the reactions rx of a pathway assembled from the
\* transformations trs
ForwardIndexed(rx, trs) ==
    LET n == Len(rx)
    IN /\ n = Len(trs)
       /\ \A i \in 1..n :
             /\ rx[i].rp2_transfo_id = trs[i]
             /\ rx[i].idx_in_path = n - (i - 1)
             /\ rx[i].id = n - (i - 1)
       /\ {rx[i].idx_in_path : i \in 1..n} = 1..n
       /\ \A i \in 1..(n - 1) : rx[i].idx_in_path > rx[i + 1].idx_in_path

\* C12: in a sub-pathway of n reactions, the reaction built from the triplet
\* at zero-based retrosynthetic position i has forward index n - i, which is
\* also the number of its id: the forward indices are exactly 1..n, each
\* used once, strictly decreasing along the input order, the first input
\* transformation getting n.
C12_ForwardIndex ==
    pc = "sub_pathway" =>
        LET trs == pathways[path_pos].transfos
        IN /\ sub_path_idx > 0 =>
                 ForwardIndexed(
                     AssembledFrom(sub_pathways[sub_path_idx], sub_path_idx).reactions,
                     trs)
           /\ \A e \in 1..Len(res_pathways[path_pos]) :
                 ForwardIndexed(res_pathways[path_pos][e].object.reactions, trs)

\* C12 witness: a pathway of two different transformations is kept, its
\* first input transformation has index 2 and its second one index 1
C12_Witness ==
    /\ pc = "sub_pathway"
    /\ pathways[path_pos].transfos = <<"T1", "T2">>
    /\ \E e \in 1..Len(res_pathways[path_pos]) :
          LET rx == res_pathways[path_pos][e].object.reactions
          IN /\ rx[1].rp2_transfo_id = "T1" /\ rx[1].idx_in_path = 2
             /\ rx[2].rp2_transfo_id = "T2" /\ rx[2].idx_in_path = 1

\* C13: the entry that stands for a class of structurally equal pathways has
\* the highest mean rule score of the pathways of the class given to
\* __keep_unique_pathways so far.
C13_EntryHasHighestScore ==
    pc = "sub_pathway" =>
        LET subs == sub_pathways
            built == [s \in 1..sub_path_idx |-> AssembledFrom(subs[s], s)]
            l == res_pathways[path_pos]
        IN \A s \in 1..sub_path_idx :
              LET score == get_mean_rule_score(built[s])
              IN \A e \in 1..Len(l) :
                    StructEq(built[s], l[e].object) => ScoreLe(score, l[e].score)

\* C14: the reaction at position i of an entry carries the rule ids and the
\* template-reaction ids of the reactions at position i of the sub-pathways
\* structurally equal to the entry, and no other id: no id comes from
\* another position or from a pathway that is not structurally equal.
C14_IdsOfSamePosition ==
    pc = "sub_pathway" =>
        LET subs == sub_pathways
            built == [s \in 1..sub_path_idx |-> AssembledFrom(subs[s], s)]
            entries == Entries(path_pos)
        IN \A e \in 1..Len(entries) :
              LET class == {s \in 1..sub_path_idx : StructEq(built[s], entries[e])}
                  rx == entries[e].reactions
              IN \A i \in 1..Len(rx) :
                    /\ Range(rx[i].rule_ids) = {subs[s][i].rule_ids : s \in class}
                    /\ Range(rx[i].tmpl_rxn_ids) = {subs[s][i].tmpl_rxn_ids : s \in class}

\* C15: after every __keep_unique_pathways call the list of the master
\* pathway is sorted by non-decreasing score, and entries of equal score
\* are in discovery order: a new pathway whose score ties with entries of
\* the list is placed after all of them (the sub-pathway number in the id of
\* an entry tells when it was discovered).
C15_SortedInDiscoveryOrder ==
    pc = "sub_pathway" =>
        LET l == res_pathways[path_pos]
        IN \A j \in 2..Len(l) :
              LET i == j - 1
              IN \/ ScoreLt(l[i].score, l[j].score)
                 \/ /\ ScoreLe(l[i].score, l[j].score)
                    /\ l[i].object.id[2] < l[j].object.id[2]

\* C15 witness: the third sub-pathway was new, its score tied with one
\* entry and was below another: it stands after the first and before the
\* second
C15_Witness ==
    /\ pc = "sub_pathway"
    /\ LET l == res_pathways[path_pos]
       IN /\ Len(l) = 3
          /\ l[1].score = l[2].score
          /\ ScoreLt(l[2].score, l[3].score)
          /\ l[1].object.id[2] = 2
          /\ l[2].object.id[2] = 3
          /\ l[3].object.id[2] = 1

\* the species that the reactions of sub-pathway number s (from 1) of the
\* current master pathway add
AddedBy(s) ==
    UNION {AddedIds(AddedCmpds(full_transfos, sub_pathways[s][i])) :
              i \in 1..Len(sub_pathways[s])}

\* C17: the registration of added species is idempotent: no step changes or
\* removes the record of an id that is in the registry, and an assembly
\* adds the ids of its added species that were not in it, each with a full
\* record when the compounds cache has the species and with an id-only
\* record otherwise.
C17_RegisteredOnce ==
    [][/\ \A x \in DOMAIN Cache : x \in DOMAIN Cache' /\ Cache'[x] = Cache[x]
       /\ build_sub_pathway =>
            /\ DOMAIN Cache' = DOMAIN Cache \cup AddedBy(sub_path_idx + 1)
            /\ \A x \in DOMAIN Cache' \ DOMAIN Cache :
                  Cache'[x] = IF x \in CompoundsCacheIds THEN "full" ELSE "id_only"
       /\ ~ build_sub_pathway => DOMAIN Cache' = DOMAIN Cache]_vars

\* C17 witness: three sub-pathways have been assembled that all add Y, which
\* the compounds cache does not have, and B, which was in the registry
\* before the first of them: Y has its id-only record and B the record of
\* the compounds file
C17_Witness ==
    /\ pc = "sub_pathway"
    /\ sub_path_idx = 3
    /\ \A s \in 1..3 : {"B", "Y"} \subseteq AddedBy(s)
    /\ "X" \in AddedBy(2)
    /\ Cache["Y"] = "id_only"
    /\ Cache["B"] = "smiles_only"
    /\ Cache["X"] = "full"

\* C16: the transformation data is read-only once completed: no step after
\* __complete_transformations changes the 'left', 'right' or 'complement'
\* of a transformation, and the __add_compounds call of a reaction leaves its
\* two arguments as they were (the copies of the two sides of the
\* transformation and the added-compounds record of the complement) and
\* returns their sum, as does the last call of __build_pathway_combinatorics;
\* a later sub-pathway sees the stoichiometry the first one saw.
C16_TransformationsReadOnly ==
    [][/\ pc \in {"build_pathway_combinatorics", "master", "sub_pathway", "done"} =>
            full_transfos' = full_transfos
       /\ build_sub_pathway =>
            LET sub == sub_pathways[sub_path_idx + 1]
                last == sub[Len(sub)]
                transfo == full_transfos[last.rp2_transfo_id]
                added == AddedCmpds(full_transfos, last)
            IN /\ ac'.done
               /\ ac'.compounds = [right |-> transfo.right, left |-> transfo.left]
               /\ ac'.compounds_to_add = added
               /\ ac'.result = add_compounds(ac'.compounds, added)
       /\ (build_pathway_combinatorics_step /\ ac'.done) =>
            /\ \E t \in DOMAIN full_transfos :
                  \E k \in 1..Len(full_transfos[t].complement) :
                     \E m \in 1..Len(full_transfos[t].complement[k].tmpls) :
                        ac'.compounds_to_add
                            = full_transfos[t].complement[k].tmpls[m].added_cmpds
            /\ ac'.result = add_compounds(ac'.compounds, ac'.compounds_to_add)]_vars

\* C16 witness: two sub-pathways that share the triplet of their first
\* position, which adds compounds, have been assembled, and the last
\* __add_compounds call added a compound to its transformation
C16_Witness ==
    /\ pc = "sub_pathway"
    /\ sub_path_idx = 2
    /\ Len(sub_pathways[1]) = 2
    /\ sub_pathways[1][1] = sub_pathways[2][1]
    /\ AddedCmpds(full_transfos, sub_pathways[1][1]) = AddedY
    /\ ac.done
    /\ ac.compounds = [right |-> ("TARGET_1" :> 1), left |-> ("A" :> 1)]
    /\ ac.compounds_to_add = AddedX
    /\ ac.result.left = ("A" :> 1) @@ ("X" :> 1)

====
